---- MODULE Spec2Model ----
(***************************************************************************)
(* Model of the EduAccess Mapper analysis code:                            *)
(*   - SchoolDistributionAnalyzer.analyze_school_distribution              *)
(*     (src/edu_access_mapper.py), the spatial join and the capacity /     *)
(*     deficit computation;                                                *)
(*   - analyze_school_distribution (src/utils/school_distribution_         *)
(*     analysis.py), the district distribution, proximity, coverage and    *)
(*     dispersion pipeline.                                                *)
(* Floating point values are kept in fixed point with Scale units per      *)
(* coordinate unit; a percentage is kept as an exact fraction.             *)
(***************************************************************************)
EXTENDS Integers, Sequences, FiniteSets, TLC

VARIABLES
    schools,                  \* schools_gdf: the facility points, in row order
    districts,                \* cities_gdf / districts_gdf: the district rows, in row order
    districts_layer,          \* utils: whether a districts layer was passed
    pc,                       \* position in the function being executed
    error,                    \* the exception that left the function, or NoError
    schools_with_cities,      \* mapper: rows of the spatial join
    schools_per_city,         \* mapper: groupby('DIST_NAME').size()
    required_schools,         \* mapper: column cities_gdf['required_schools']
    current_schools,          \* mapper: column cities_gdf['current_schools']
    additional_schools_needed,\* mapper: column cities_gdf['additional_schools_needed']
    result,                   \* mapper: the returned dictionary, or NoResult
    analysis_results,         \* utils: the dictionary under construction
    returned,                 \* utils: whether analysis_results was returned
    vor,                      \* utils: the Voronoi diagram of the facility coordinates
    ridge_used,               \* utils: the ridges that passed the filter of the comprehension
    ridge_lengths,            \* utils: list of ridge lengths
    centroid_of_centroids,    \* utils: the center used by the dispersion measure
    distances_from_center     \* utils: list of distances to the center

vars == <<schools, districts, districts_layer, pc, error, schools_with_cities,
          schools_per_city, required_schools, current_schools,
          additional_schools_needed, result, analysis_results, returned, vor,
          ridge_used, ridge_lengths, centroid_of_centroids, distances_from_center>>

(***************************************************************************)
(* Bounds of the model.                                                    *)
(***************************************************************************)
MaxSchools == 2        \* mapper: at most this many facility rows
MaxDistricts == 2      \* at most this many district rows
MaxFacilities == 4     \* utils: at most this many facility rows

(***************************************************************************)
(* Program constants.                                                      *)
(***************************************************************************)
max_students_per_school == 2000
buffer_distance == 10

\* Fixed point: Scale units per coordinate unit (two decimals).
Scale == 10 * 10

NaN == "NaN"
NoError == "none"
NoResult == [none |-> TRUE]
NoValue == <<>>

(***************************************************************************)
(* Inputs.                                                                 *)
(***************************************************************************)
\* District names are unique keys; row i carries the i-th name.
DistNames == <<"D1", "D2", "D3", "D4">>

\* District polygons: axis-aligned rectangles; the two overlap for 4 < x < 6.
DistrictPolys == { [minx |-> 0, miny |-> 0, maxx |-> 6, maxy |-> 10],
                   [minx |-> 4, miny |-> 0, maxx |-> 10, maxy |-> 10] }

\* Populations around the multiples of the capacity.
PopSet == {0, 1, 2000, 2001, 4001}

\* Mapper facilities: inside the first polygon only, inside both, on the
\* boundary of the second (inside the first), outside both.
MapperPoints == { <<2, 5>>, <<5, 5>>, <<4, 5>>, <<12, 5>> }

\* Utils facilities: the corners of a square of side 10 and its center.
UtilsPoints == { <<0, 0>>, <<10, 0>>, <<0, 10>>, <<10, 10>>, <<5, 5>> }

SeqsUpTo(S, lo, hi) == UNION { [1..n -> S] : n \in lo..hi }

DistrictRows(n, pops) ==
    { d \in [1..n -> [DIST_NAME : {"D1", "D2", "D3", "D4"},
                      geometry : DistrictPolys, TOTAL_POP : pops]] :
        \A i \in 1..n : d[i].DIST_NAME = DistNames[i] }

DistrictTables(lo, hi, pops) == UNION { DistrictRows(n, pops) : n \in lo..hi }

(***************************************************************************)
(* Arithmetic helpers.                                                     *)
(***************************************************************************)
Max(a, b) == IF a >= b THEN a ELSE b
Min(a, b) == IF a <= b THEN a ELSE b

RECURSIVE SumSeq(_)
SumSeq(s) == IF s = <<>> THEN 0 ELSE Head(s) + SumSeq(Tail(s))

RECURSIVE MaxSeq(_)
MaxSeq(s) == IF Len(s) = 1 THEN s[1] ELSE Max(Head(s), MaxSeq(Tail(s)))

RECURSIVE MinSeq(_)
MinSeq(s) == IF Len(s) = 1 THEN s[1] ELSE Min(Head(s), MinSeq(Tail(s)))

\* Integer square root by bisection: the largest r with r * r <= n, for
\* n below 2^30 (the squares stay within 32 bits).
RECURSIVE ISqrtIn(_, _, _)
ISqrtIn(n, lo, hi) ==
    IF lo >= hi THEN lo
    ELSE LET mid == (lo + hi + 1) \div 2
         IN IF mid * mid <= n THEN ISqrtIn(n, mid, hi) ELSE ISqrtIn(n, lo, mid - 1)

ISqrt(n) == ISqrtIn(n, 0, Min(n, 32768))

\* Euclidean distance of two points given in fixed point, in fixed point.
Hypot(dx, dy) == ISqrt(dx * dx + dy * dy)

\* numpy.mean of a non-empty list of fixed point values.
NpMean(xs) == SumSeq(xs) \div Len(xs)

(***************************************************************************)
(* Spatial join and grouping (geopandas.sjoin, DataFrame.groupby).         *)
(***************************************************************************)
\* shapely 'within': the point lies in the interior of the polygon.
Within(p, poly) ==
    /\ poly.minx < p[1] /\ p[1] < poly.maxx
    /\ poly.miny < p[2] /\ p[2] < poly.maxy

\* shapely 'intersects': the point lies in the polygon or on its boundary.
Intersects(p, poly) ==
    /\ poly.minx <= p[1] /\ p[1] <= poly.maxx
    /\ poly.miny <= p[2] /\ p[2] <= poly.maxy

SpatialPredicate(predicate, p, poly) ==
    IF predicate = "within" THEN Within(p, poly) ELSE Intersects(p, poly)

\* The indices of the right rows matching a left point, in row order.
RightMatches(p, right, predicate) ==
    SelectSeq([j \in 1..Len(right) |-> j],
              LAMBDA j : SpatialPredicate(predicate, p, right[j].geometry))

\* how='left': one row per matching right row, or one row with a NaN name.
LeftRows(i, left, right, predicate) ==
    LET m == RightMatches(left[i], right, predicate)
    IN IF m = <<>>
       THEN << [school |-> i, DIST_NAME |-> NaN] >>
       ELSE [k \in 1..Len(m) |-> [school |-> i, DIST_NAME |-> right[m[k]].DIST_NAME]]

RECURSIVE SJoinFrom(_, _, _, _)
SJoinFrom(i, left, right, predicate) ==
    IF i > Len(left) THEN <<>>
    ELSE LeftRows(i, left, right, predicate) \o SJoinFrom(i + 1, left, right, predicate)

SJoin(left, right, predicate) == SJoinFrom(1, left, right, predicate)

\* groupby(name).size(): one entry per name present in the rows, NaN dropped.
GroupBySize(rows) ==
    LET keys == { rows[k].DIST_NAME : k \in 1..Len(rows) } \ {NaN}
    IN [n \in keys |-> Cardinality({ k \in 1..Len(rows) : rows[k].DIST_NAME = n })]

(***************************************************************************)
(* Capacity and deficit (edu_access_mapper.py).                            *)
(***************************************************************************)
\* numpy.ceil of the float quotient, cast to int.
NpCeilDivFloor(pop, capacity) == pop \div capacity

NpCeilDiv(pop, capacity) ==
    IF pop % capacity = 0 THEN pop \div capacity ELSE (pop \div capacity) + 1

RequiredSchoolsColumn(cities) ==
    [i \in 1..Len(cities) |-> NpCeilDiv(cities[i].TOTAL_POP, max_students_per_school)]

\* Series.map(schools_per_city).fillna(0)
CurrentSchoolsColumn(cities, counts) ==
    [i \in 1..Len(cities) |->
        IF cities[i].DIST_NAME \in DOMAIN counts THEN counts[cities[i].DIST_NAME] ELSE 0]

AdditionalNoClamp(required, current) == required - current

\* required - current, then apply(lambda x: max(x, 0))
Additional(required, current) == Max(required - current, 0)

AdditionalColumn(required, current) ==
    [i \in 1..Len(required) |-> Additional(required[i], current[i])]

\* A dictionary keyed only by the districts that have a joined facility.
SetIndexToDictJoined(cities, column) ==
    [n \in { cities[i].DIST_NAME : i \in 1..Len(cities) } \cap DOMAIN schools_per_city |->
        column[CHOOSE i \in 1..Len(cities) : cities[i].DIST_NAME = n]]

\* cities_gdf[['DIST_NAME', c]].set_index('DIST_NAME').to_dict()[c]: one key
\* per name, the last row of a name giving its value.
SetIndexToDict(cities, column) ==
    [n \in { cities[i].DIST_NAME : i \in 1..Len(cities) } |->
        column[CHOOSE i \in 1..Len(cities) :
                  /\ cities[i].DIST_NAME = n
                  /\ \A j \in 1..Len(cities) : cities[j].DIST_NAME = n => j <= i]]

(***************************************************************************)
(* SchoolDistributionAnalyzer.analyze_school_distribution                  *)
(***************************************************************************)
UtilsIdle ==
    /\ districts_layer = FALSE
    /\ analysis_results = <<>>
    /\ returned = FALSE
    /\ vor = NoValue
    /\ ridge_used = <<>>
    /\ ridge_lengths = <<>>
    /\ centroid_of_centroids = NoValue
    /\ distances_from_center = <<>>

MapperIdle ==
    /\ schools_with_cities = <<>>
    /\ schools_per_city = <<>>
    /\ required_schools = <<>>
    /\ current_schools = <<>>
    /\ additional_schools_needed = <<>>
    /\ result = NoResult

utilsVars == <<districts_layer, analysis_results, returned, vor, ridge_used,
               ridge_lengths, centroid_of_centroids, distances_from_center>>

mapperVars == <<schools_with_cities, schools_per_city, required_schools,
                current_schools, additional_schools_needed, result>>

InitMapper ==
    /\ schools \in SeqsUpTo(MapperPoints, 0, MaxSchools)
    /\ districts \in DistrictTables(1, MaxDistricts, PopSet)
    /\ pc = "start"
    /\ error = NoError
    /\ MapperIdle
    /\ UtilsIdle

\* Lines 82-84: spatial join, then the count of joined rows per district.
MapperSpatialJoin ==
    /\ pc = "start"
    /\ schools_with_cities' = SJoin(schools, districts, "within")
    /\ schools_per_city' = GroupBySize(schools_with_cities')
    /\ pc' = "joined"
    /\ UNCHANGED <<schools, districts, error, required_schools, current_schools,
                   additional_schools_needed, result, utilsVars>>

\* Lines 86-89: required schools from the population.
MapperRequired ==
    /\ pc = "joined"
    /\ required_schools' = RequiredSchoolsColumn(districts)
    /\ pc' = "required"
    /\ UNCHANGED <<schools, districts, error, schools_with_cities, schools_per_city,
                   current_schools, additional_schools_needed, result, utilsVars>>

\* Lines 91-94: current schools and the clamped difference.
MapperAdditional ==
    /\ pc = "required"
    /\ current_schools' = CurrentSchoolsColumn(districts, schools_per_city)
    /\ additional_schools_needed' = AdditionalColumn(required_schools, current_schools')
    /\ pc' = "additional"
    /\ UNCHANGED <<schools, districts, error, schools_with_cities, schools_per_city,
                   required_schools, result, utilsVars>>

\* Lines 96-101: the returned dictionary.
MapperReturn ==
    /\ pc = "additional"
    /\ result' = [ total_schools |-> Len(schools),
                   schools_per_city |-> schools_per_city,
                   required_schools |-> SetIndexToDict(districts, required_schools),
                   additional_schools_needed |->
                       SetIndexToDict(districts, additional_schools_needed) ]
    /\ pc' = "done"
    /\ UNCHANGED <<schools, districts, error, schools_with_cities, schools_per_city,
                   required_schools, current_schools, additional_schools_needed,
                   utilsVars>>

NextMapper == MapperSpatialJoin \/ MapperRequired \/ MapperAdditional \/ MapperReturn

SpecMapper == InitMapper /\ [][NextMapper]_vars

(***************************************************************************)
(* Properties of the mapper's analysis.                                    *)
(***************************************************************************)
DistrictNameSet == { districts[i].DIST_NAME : i \in 1..Len(districts) }

\* The number of facilities the containment join assigned to a district.
JoinCount(n) ==
    Cardinality({ k \in 1..Len(schools_with_cities) : schools_with_cities[k].DIST_NAME = n })

\* The number of facilities the join left without a district.
Unassigned ==
    Cardinality({ k \in 1..Len(schools_with_cities) : schools_with_cities[k].DIST_NAME = NaN })

RECURSIVE SumOver(_, _)
SumOver(f, S) ==
    IF S = {} THEN 0
    ELSE LET n == CHOOSE x \in S : TRUE IN f[n] + SumOver(f, S \ {n})

\* C1: the keys of the required_schools map and of the additional_schools_needed
\* map are exactly the district names of the input, one entry per district,
\* whatever the placement of the facilities and the populations.
C1_DistrictKeys ==
    pc = "done" =>
        /\ DOMAIN result.required_schools = DistrictNameSet
        /\ DOMAIN result.additional_schools_needed = DistrictNameSet
        /\ Cardinality(DOMAIN result.required_schools) = Len(districts)
        /\ Cardinality(DOMAIN result.additional_schools_needed) = Len(districts)

\* A finished run with a district that holds no facility and has population 0,
\* beside a district that holds one.
C1_Witness ==
    /\ pc = "done"
    /\ \E i \in 1..Len(districts) :
          /\ JoinCount(districts[i].DIST_NAME) = 0
          /\ districts[i].TOTAL_POP = 0
          /\ districts[i].DIST_NAME \in DOMAIN result.required_schools
    /\ \E j \in 1..Len(districts) : JoinCount(districts[j].DIST_NAME) > 0

\* C2: the reported required count is ceiling(population / 2000): the smallest
\* integer r with r * 2000 >= population.
C2_RequiredIsCeiling ==
    pc = "done" =>
        \A i \in 1..Len(districts) :
            LET r == result.required_schools[districts[i].DIST_NAME]
                p == districts[i].TOTAL_POP
            IN /\ r >= 0
               /\ r * 2000 >= p
               /\ r > 0 => (r - 1) * 2000 < p

\* A finished run with populations 2001 and 1, reported as 2 and 1.
C2_Witness ==
    /\ pc = "done"
    /\ \E i \in 1..Len(districts) :
          /\ districts[i].TOTAL_POP = 2001
          /\ result.required_schools[districts[i].DIST_NAME] = 2
    /\ \E j \in 1..Len(districts) :
          /\ districts[j].TOTAL_POP = 1
          /\ result.required_schools[districts[j].DIST_NAME] = 1

\* C3: the reported additional_schools_needed is max(required - current, 0),
\* current being the number of join rows of the district; it is never
\* negative and it is 0 exactly when current >= required.
C3_AdditionalIsClampedDeficit ==
    pc = "done" =>
        \A i \in 1..Len(districts) :
            LET n == districts[i].DIST_NAME
                a == result.additional_schools_needed[n]
                r == result.required_schools[n]
                c == JoinCount(n)
            IN /\ a = (IF r - c > 0 THEN r - c ELSE 0)
               /\ a >= 0
               /\ (a = 0) <=> (c >= r)

\* A finished run with one district short of facilities (current > 0) and one
\* district holding more facilities than it requires.
C3_Witness ==
    /\ pc = "done"
    /\ \E i \in 1..Len(districts) :
          LET n == districts[i].DIST_NAME
          IN /\ JoinCount(n) > 0
             /\ result.required_schools[n] > JoinCount(n)
             /\ result.additional_schools_needed[n] > 0
    /\ \E j \in 1..Len(districts) :
          LET n == districts[j].DIST_NAME
          IN /\ JoinCount(n) > result.required_schools[n]
             /\ result.additional_schools_needed[n] = 0

\* C4: the per-district facility count map has an entry for every district of
\* the input, a district without a facility being reported with count 0.
C4_ZeroCountsReported ==
    pc = "done" =>
        \A i \in 1..Len(districts) :
            LET n == districts[i].DIST_NAME
            IN /\ n \in DOMAIN result.schools_per_city
               /\ result.schools_per_city[n] = JoinCount(n)

\* C5: each facility is assigned to at most one district, so the per-district
\* counts plus the unassigned facilities add up to the total facility count.
C5_CountsSumToTotal ==
    pc = "done" =>
        /\ \A s \in 1..Len(schools) :
              Cardinality({ k \in 1..Len(schools_with_cities) :
                              /\ schools_with_cities[k].school = s
                              /\ schools_with_cities[k].DIST_NAME # NaN }) <= 1
        /\ SumOver(result.schools_per_city, DOMAIN result.schools_per_city) + Unassigned
              = result.total_schools

(***************************************************************************)
(* scipy.spatial.Voronoi over the facility coordinates.                    *)
(* A ridge separates two input points whose cells share an edge: the pairs *)
(* for which a circle through both holds no other input point inside.      *)
(* With c(t) the point of the perpendicular bisector of a and b at         *)
(* parameter t, an input point k is not inside the circle around c(t)      *)
(* when RidgeA(a, b, k) + 4t * RidgeB(a, b, k) >= 0.                       *)
(***************************************************************************)
\* Qhull keeps one input point per coordinate: the first.
Sites(coords) ==
    { i \in 1..Len(coords) : \A j \in 1..(i - 1) : coords[j] # coords[i] }

Cross(a, b, c) == (b[1] - a[1]) * (c[2] - a[2]) - (b[2] - a[2]) * (c[1] - a[1])

AllCollinear(coords) ==
    \A i, j, k \in 1..Len(coords) : Cross(coords[i], coords[j], coords[k]) = 0

RidgeA(a, b, k) ==
    LET mx == a[1] + b[1] - 2 * k[1]
        my == a[2] + b[2] - 2 * k[2]
        dx == b[1] - a[1]
        dy == b[2] - a[2]
    IN (mx * mx + my * my) - (dx * dx + dy * dy)

RidgeB(a, b, k) ==
    LET mx == a[1] + b[1] - 2 * k[1]
        my == a[2] + b[2] - 2 * k[2]
    IN (b[1] - a[1]) * my - (b[2] - a[2]) * mx

OtherSites(coords, i, j) == Sites(coords) \ {i, j}

PosSide(coords, i, j) ==
    { k \in OtherSites(coords, i, j) : RidgeB(coords[i], coords[j], coords[k]) > 0 }

NegSide(coords, i, j) ==
    { k \in OtherSites(coords, i, j) : RidgeB(coords[i], coords[j], coords[k]) < 0 }

\* An input point lies on the segment between the two.
Blocked(coords, i, j) ==
    \E k \in OtherSites(coords, i, j) :
        /\ RidgeB(coords[i], coords[j], coords[k]) = 0
        /\ RidgeA(coords[i], coords[j], coords[k]) < 0

\* The two cells share an edge of positive length.
IsRidge(coords, i, j) ==
    /\ ~Blocked(coords, i, j)
    /\ \A k \in PosSide(coords, i, j) : \A l \in NegSide(coords, i, j) :
          RidgeA(coords[i], coords[j], coords[k]) * RidgeB(coords[i], coords[j], coords[l])
            < RidgeA(coords[i], coords[j], coords[l]) * RidgeB(coords[i], coords[j], coords[k])

\* The two cells touch in a single point (four input points on one circle).
IsDegenerateRidge(coords, i, j) ==
    /\ ~Blocked(coords, i, j)
    /\ ~IsRidge(coords, i, j)
    /\ \A k \in PosSide(coords, i, j) : \A l \in NegSide(coords, i, j) :
          RidgeA(coords[i], coords[j], coords[k]) * RidgeB(coords[i], coords[j], coords[l])
            <= RidgeA(coords[i], coords[j], coords[l]) * RidgeB(coords[i], coords[j], coords[k])

\* A ridge is bounded when input points limit it on both sides; otherwise it
\* extends to infinity and ridge_vertices marks it with -1.
RidgeIsFinite(coords, i, j) ==
    PosSide(coords, i, j) # {} /\ NegSide(coords, i, j) # {}

SitePairs(coords) ==
    { pr \in Sites(coords) \X Sites(coords) : pr[1] < pr[2] }

StrictRidges(coords) == { pr \in SitePairs(coords) : IsRidge(coords, pr[1], pr[2]) }

DegenerateRidges(coords) ==
    { pr \in SitePairs(coords) : IsDegenerateRidge(coords, pr[1], pr[2]) }

AllPairsSeq(n) ==
    [k \in 1..(n * n) |-> << ((k - 1) \div n) + 1, ((k - 1) % n) + 1 >>]

\* The diagram with the ridges R: ridge_points, and ridge_vertices reduced to
\* whether the ridge has the vertex -1.
Diagram(coords, R) ==
    LET rp == SelectSeq(AllPairsSeq(Len(coords)), LAMBDA pr : pr \in R)
    IN [ raised |-> FALSE,
         ridge_points |-> rp,
         ridge_vertices |->
            [k \in 1..Len(rp) |->
                IF RidgeIsFinite(coords, rp[k][1], rp[k][2]) THEN <<0, 1>> ELSE <<-1, 0>>] ]

QhullError == [raised |-> TRUE]

\* The outcomes of Voronoi(coords). Fewer than 4 input points, or input points
\* all on one line, raise QhullError. Whether 4 or more rows holding fewer than
\* 4 distinct points raise, and whether a degenerate ridge is listed, is left
\* to the library: every outcome is allowed.
Voronoi(coords) ==
    IF Len(coords) < 4 \/ AllCollinear(coords)
    THEN {QhullError}
    ELSE { Diagram(coords, StrictRidges(coords) \cup extra) :
             extra \in SUBSET DegenerateRidges(coords) }
         \cup (IF Cardinality(Sites(coords)) < 4 THEN {QhullError} ELSE {})

\* numpy.linalg.norm(coords[i] - coords[j]), in fixed point.
Norm(a, b) == Hypot(Scale * (a[1] - b[1]), Scale * (a[2] - b[2]))

\* all(0 <= r < len(coords) for r in ridge), with rows numbered from 1.
RidgeFilter(ridge, coords) ==
    \A r \in {ridge[1], ridge[2]} : 1 <= r /\ r <= Len(coords)

(***************************************************************************)
(* Coverage (calculate_coverage).                                          *)
(***************************************************************************)
XS(geometry) == { geometry[i][1] : i \in 1..Len(geometry) }
YS(geometry) == { geometry[i][2] : i \in 1..Len(geometry) }

SetMin(S) == CHOOSE x \in S : \A y \in S : x <= y
SetMax(S) == CHOOSE x \in S : \A y \in S : x >= y

\* GeoSeries.total_bounds: (minx, miny, maxx, maxy)
TotalBounds(geometry) ==
    << SetMin(XS(geometry)), SetMin(YS(geometry)),
       SetMax(XS(geometry)), SetMax(YS(geometry)) >>

\* ndarray.prod() of the four bounds.
BoundsProd(b) == b[1] * b[2] * b[3] * b[4]

\* Area of the union of the buffers, counted in unit cells: a cell belongs to
\* the union when its center is within buffer_distance of a facility.
UnionArea(geometry, distance) ==
    LET b == TotalBounds(geometry)
        cells == ((b[1] - distance)..(b[3] + distance - 1))
                    \X ((b[2] - distance)..(b[4] + distance - 1))
        covered(c) ==
            \E i \in 1..Len(geometry) :
                LET dx == 2 * c[1] + 1 - 2 * geometry[i][1]
                    dy == 2 * c[2] + 1 - 2 * geometry[i][2]
                IN dx * dx + dy * dy <= 4 * distance * distance
    IN Cardinality({ c \in cells : covered(c) })

\* area / divisor * 100 in float64: a fraction, or infinity for a zero divisor.
Percentage(area, divisor) ==
    IF divisor = 0
    THEN [kind |-> "inf", num |-> 0, den |-> 0]
    ELSE [kind |-> "num", num |-> area * 100, den |-> divisor]

CalculateCoverage(schools_geometry, distance) ==
    LET area == UnionArea(schools_geometry, distance)
    IN [ total_coverage_area |-> area,
         coverage_percentage |-> Percentage(area, BoundsProd(TotalBounds(schools_geometry))) ]

(***************************************************************************)
(* Dispersion (calculate_spatial_dispersion).                              *)
(***************************************************************************)
\* Series.mean() of one coordinate of the points, in fixed point.
CoordMean(geometry, axis) ==
    (Scale * SumSeq([i \in 1..Len(geometry) |-> geometry[i][axis]])) \div Len(geometry)

\* The root of the mean square, without the mean taken off.
NpStdUncentered(xs) ==
    ISqrt(SumSeq([i \in 1..Len(xs) |-> xs[i] * xs[i]]) \div Len(xs))

\* numpy.std: the population standard deviation.
NpStd(xs) ==
    LET m == NpMean(xs)
    IN ISqrt(SumSeq([i \in 1..Len(xs) |-> (xs[i] - m) * (xs[i] - m)]) \div Len(xs))

CentroidOfCentroids(geometry) == << CoordMean(geometry, 1), CoordMean(geometry, 2) >>

DistancesFromCenter(geometry, center) ==
    [i \in 1..Len(geometry) |->
        Hypot(Scale * geometry[i][1] - center[1], Scale * geometry[i][2] - center[2])]

CalculateSpatialDispersion(geometry) ==
    LET d == DistancesFromCenter(geometry, CentroidOfCentroids(geometry))
    IN [ mean_distance_from_center |-> NpMean(d),
         std_distance_from_center |-> NpStd(d) ]

(***************************************************************************)
(* analyze_school_distribution (utils/school_distribution_analysis.py)     *)
(***************************************************************************)
InitUtils ==
    /\ schools \in SeqsUpTo(UtilsPoints, 1, MaxFacilities)
    /\ districts_layer \in BOOLEAN
    /\ districts \in (IF districts_layer
                      THEN DistrictTables(1, MaxDistricts, {0}) ELSE {<<>>})
    /\ pc = "start"
    /\ error = NoError
    /\ MapperIdle
    /\ analysis_results = <<>>
    /\ returned = FALSE
    /\ vor = NoValue
    /\ ridge_used = <<>>
    /\ ridge_lengths = <<>>
    /\ centroid_of_centroids = NoValue
    /\ distances_from_center = <<>>

\* Lines 17-26: the basic metrics.
UtilsBasicMetrics ==
    /\ pc = "start"
    /\ analysis_results' =
          ("basic_metrics" :>
              [ total_schools |-> Len(schools),
                mean_location |-> [ latitude |-> CoordMean(schools, 2),
                                    longitude |-> CoordMean(schools, 1) ] ])
    /\ pc' = "district"
    /\ UNCHANGED <<schools, districts, districts_layer, error, mapperVars, returned,
                   vor, ridge_used, ridge_lengths, centroid_of_centroids,
                   distances_from_center>>

\* Lines 28-39: the district distribution, when a districts layer is given.
\* sjoin is called with its default predicate, 'intersects'.
UtilsDistrictDistribution ==
    /\ pc = "district"
    /\ analysis_results' =
          IF districts_layer
          THEN LET district_school_counts ==
                       GroupBySize(SJoin(schools, districts, "intersects"))
               IN analysis_results @@
                  ("district_distribution" :>
                      [ school_count_by_district |-> district_school_counts,
                        districts_with_no_schools |->
                            { districts[i].DIST_NAME : i \in 1..Len(districts) }
                                \ DOMAIN district_school_counts ])
          ELSE analysis_results
    /\ pc' = "proximity"
    /\ UNCHANGED <<schools, districts, districts_layer, error, mapperVars, returned,
                   vor, ridge_used, ridge_lengths, centroid_of_centroids,
                   distances_from_center>>

\* Lines 42-62: calculate_nearest_neighbor_distance. An exception of Voronoi,
\* or of numpy.min over an empty list, leaves the function: nothing catches it.
UtilsProximity ==
    /\ pc = "proximity"
    /\ \E v \in Voronoi(schools) :
          /\ vor' = v
          /\ IF v.raised
             THEN /\ error' = "QhullError"
                  /\ pc' = "raised"
                  /\ UNCHANGED <<ridge_used, ridge_lengths, analysis_results>>
             ELSE LET used == SelectSeq(v.ridge_points,
                                        LAMBDA ridge : RidgeFilter(ridge, schools))
                      lengths == [k \in 1..Len(used) |->
                                     Norm(schools[used[k][1]], schools[used[k][2]])]
                  IN /\ ridge_used' = used
                     /\ ridge_lengths' = lengths
                     /\ IF lengths = <<>>
                        THEN /\ error' = "ValueError"
                             /\ pc' = "raised"
                             /\ UNCHANGED analysis_results
                        ELSE /\ analysis_results' = analysis_results @@
                                  ("spatial_accessibility" :>
                                      [ mean_nearest_neighbor_distance |-> NpMean(lengths),
                                        min_nearest_neighbor_distance |-> MinSeq(lengths),
                                        max_nearest_neighbor_distance |-> MaxSeq(lengths) ])
                             /\ pc' = "coverage"
                             /\ UNCHANGED error
    /\ UNCHANGED <<schools, districts, districts_layer, mapperVars, returned,
                   centroid_of_centroids, distances_from_center>>

\* Lines 64-75: calculate_coverage with the default buffer distance.
UtilsCoverage ==
    /\ pc = "coverage"
    /\ analysis_results' = analysis_results @@
          ("coverage" :> CalculateCoverage(schools, buffer_distance))
    /\ pc' = "dispersion"
    /\ UNCHANGED <<schools, districts, districts_layer, error, mapperVars, returned,
                   vor, ridge_used, ridge_lengths, centroid_of_centroids,
                   distances_from_center>>

\* Lines 77-98: calculate_spatial_dispersion.
UtilsDispersion ==
    /\ pc = "dispersion"
    /\ centroid_of_centroids' = CentroidOfCentroids(schools)
    /\ distances_from_center' = DistancesFromCenter(schools, centroid_of_centroids')
    /\ analysis_results' = analysis_results @@
          ("spatial_dispersion" :> CalculateSpatialDispersion(schools))
    /\ pc' = "return"
    /\ UNCHANGED <<schools, districts, districts_layer, error, mapperVars, returned,
                   vor, ridge_used, ridge_lengths>>

\* Line 100: return analysis_results.
UtilsReturn ==
    /\ pc = "return"
    /\ returned' = TRUE
    /\ pc' = "done"
    /\ UNCHANGED <<schools, districts, districts_layer, error, mapperVars,
                   analysis_results, vor, ridge_used, ridge_lengths,
                   centroid_of_centroids, distances_from_center>>

NextUtils ==
    \/ UtilsBasicMetrics
    \/ UtilsDistrictDistribution
    \/ UtilsProximity
    \/ UtilsCoverage
    \/ UtilsDispersion
    \/ UtilsReturn

SpecUtils == InitUtils /\ [][NextUtils]_vars

(***************************************************************************)
(* calculate_spatial_dispersion applied to a facility geometry series.     *)
(***************************************************************************)
InitDispersion ==
    /\ schools \in SeqsUpTo(UtilsPoints, 1, MaxFacilities)
    /\ districts = <<>>
    /\ pc = "dispersion"
    /\ error = NoError
    /\ MapperIdle
    /\ UtilsIdle

NextDispersion == UtilsDispersion

SpecDispersion == InitDispersion /\ [][NextDispersion]_vars

(***************************************************************************)
(* Properties of the utils pipeline and of its estimators.                 *)
(***************************************************************************)
DistinctPoints(geometry) == { geometry[i] : i \in 1..Len(geometry) }

\* The proximity step has been left, by a return or by an exception.
ProximityLeft == pc \in {"raised", "coverage", "dispersion", "return", "done"}

\* The proximity step has returned its statistics.
ProximityReturned == pc \in {"coverage", "dispersion", "return", "done"}

\* The coverage step has returned.
CoverageReturned == pc \in {"dispersion", "return", "done"}

\* C6: a failure of the proximity statistics leaves the coverage and dispersion
\* sections (and the district distribution, when asked for) computed and
\* present in a returned result.
C6_PartialResults ==
    pc = "raised" =>
        /\ returned
        /\ {"coverage", "spatial_dispersion"} \subseteq DOMAIN analysis_results
        /\ districts_layer => "district_distribution" \in DOMAIN analysis_results

\* C7: with fewer than 4 distinct facility points, or with an empty list of
\* ridge distances, the proximity step ends in InsufficientDataError and
\* returns no statistics.
C7_TypedError ==
    (ProximityLeft /\ (Cardinality(DistinctPoints(schools)) < 4 \/ ridge_lengths = <<>>)) =>
        /\ error = "InsufficientDataError"
        /\ "spatial_accessibility" \notin DOMAIN analysis_results

\* The area of the bounding rectangle.
BoundsArea(b) == (b[3] - b[1]) * (b[4] - b[2])

\* C8: the coverage percentage is 100 * union area / area of the bounding
\* rectangle of the facilities, and the not-a-number sentinel when that
\* rectangle has zero area.
C8_PercentOfBoundingRectangle ==
    CoverageReturned =>
        LET rect == BoundsArea(TotalBounds(schools))
            cov == analysis_results["coverage"]
            pct == cov.coverage_percentage
        IN IF rect = 0
           THEN pct.kind = "nan"
           ELSE /\ pct.kind = "num"
                /\ pct.num * rect = 100 * cov.total_coverage_area * pct.den

\* The position of a ridge in vor.ridge_points.
RidgeIndex(ridge) == CHOOSE m \in 1..Len(vor.ridge_points) : vor.ridge_points[m] = ridge

RidgeHasInfiniteVertex(m) == -1 \in {vor.ridge_vertices[m][1], vor.ridge_vertices[m][2]}

\* C10: the ridge distances are those of exactly the finite ridges (no ridge
\* with a -1 vertex contributes), and min <= mean <= max.
C10_OnlyFiniteRidges ==
    ProximityReturned =>
        LET stats == analysis_results["spatial_accessibility"]
        IN /\ \A k \in 1..Len(ridge_used) : ~RidgeHasInfiniteVertex(RidgeIndex(ridge_used[k]))
           /\ Len(ridge_used) =
                 Cardinality({ m \in 1..Len(vor.ridge_points) : ~RidgeHasInfiniteVertex(m) })
           /\ stats.min_nearest_neighbor_distance <= stats.mean_nearest_neighbor_distance
           /\ stats.mean_nearest_neighbor_distance <= stats.max_nearest_neighbor_distance

\* The facilities (0,0) and (10,0), in either row order.
TwoOnAxis ==
    schools \in { << <<0, 0>>, <<10, 0>> >>, << <<10, 0>>, <<0, 0>> >> }

DispersionReturned == pc \in {"return", "done"}

====
